---- MODULE Spec2Model ----
(***************************************************************************)
(* Model of the BLE prober's discovery-and-probe engine:                   *)
(*   web_server.py  start_scan / probe_target and the radio_lock gate,     *)
(*   scanner.py     run_scan, probe_device, log_to_file, reset_led_later,  *)
(*   status_led.py  the status indicator's state.                          *)
(* Every request handler is an asyncio task; a step of the model is the    *)
(* code a task runs between two suspension points (await).                 *)
(***************************************************************************)
EXTENDS Integers, Sequences, FiniteSets, TLC

----------------------------------------------------------------------------
(* Bounds of the model *)

NumTasks == 2
MaxReports == 3
MaxServices == 2
MaxChars == 2
MaxTimers == 1

Tasks == 1..NumTasks

----------------------------------------------------------------------------
(* Program constants *)

None == "None"

IDLE == "IDLE"
SCANNING == "SCANNING"
CONNECTING == "CONNECTING"
ERROR == "ERROR"
LedStates == {IDLE, SCANNING, CONNECTING, ERROR}

RSSI_THRESHOLD == -90
max_retries == 2

ADDR_PUBLIC == 0
ADDR_RANDOM == 1

FLAG_READ == 2
FLAG_WRITE == 8
FLAG_NOTIFY == 16

UUID_NAMES ==
    [u \in {"0x1800", "0x1801", "0x180a", "0x180f", "0x180d", "0x1815",
            "0x1809", "0xffe0", "0xfebe"} |->
        CASE u = "0x1800" -> "Generic Access"
          [] u = "0x1801" -> "Generic Attribute"
          [] u = "0x180a" -> "Device Information"
          [] u = "0x180f" -> "Battery Service"
          [] u = "0x180d" -> "Heart Rate"
          [] u = "0x1815" -> "Automation IO"
          [] u = "0x1809" -> "Health Thermometer"
          [] u = "0xffe0" -> "HM-10 Serial (Proprietary)"
          [] u = "0xfebe" -> "Bose Proprietary"]

----------------------------------------------------------------------------
(* State *)

VARIABLES
    FILTER_NAMED_ONLY,  \* config.FILTER_NAMED_ONLY, fixed at start-up
    radio_lock,         \* web_server.radio_lock: [state, waiting]
    current_state,      \* status_led.current_state
    found_devices,      \* scanner.found_devices, a list of device records
    pc,                 \* where each request task stands
    req,                \* the request each task serves: [kind, bdaddr]
    resp,               \* the HTTP status each task last answered
    scan,               \* what the running / last scan has been fed (history)
    probe,              \* probe_device's locals, per task
    timers              \* pending reset_led_later tasks

vars == <<FILTER_NAMED_ONLY, radio_lock, current_state, found_devices, pc,
          req, resp, scan, probe, timers>>

----------------------------------------------------------------------------
(* Inputs *)

Addrs == {"aa:01", "bb:02"}
AdvNames == {None, "Sensor", "Tag"}
Rssis == {-95, -80, -70}

\* aioble.Device: an address type and an address; the first address is seen
\* with either type
Devices == {d \in [addr_type : {ADDR_PUBLIC, ADDR_RANDOM}, addr : Addrs] :
                d.addr_type = ADDR_RANDOM => d.addr = "aa:01"}
NoDevice == [addr_type |-> ADDR_PUBLIC, addr |-> None]

\* One advertisement report (aioble ScanResult); the reports out of reach and
\* the reports that are not connectable differ by their device only
AllScanResults == [device : Devices, rssi : Rssis, name : AdvNames,
                   connectable : BOOLEAN]
ScanResults ==
    {r \in AllScanResults :
        \/ r.rssi # -95 /\ r.connectable
        \/ r.rssi = -95 /\ r.connectable /\ r.name = "Sensor"
        \/ r.rssi = -80 /\ ~r.connectable /\ r.name = "Sensor"}
\* the reports of the specifications that are not about scans: one device,
\* in reach, named or anonymous
FewScanResults ==
    {r \in AllScanResults : /\ r.device = [addr_type |-> ADDR_RANDOM, addr |-> "aa:01"]
                         /\ r.connectable
                         /\ r.rssi = -80
                         /\ r.name # "Tag"}

NoRequest == [kind |-> None, bdaddr |-> None]

\* no reading: weaker than any reading of the radio
NoRssi == RSSI_THRESHOLD - 100
NoResult == [device |-> NoDevice, rssi |-> NoRssi, name |-> None,
             connectable |-> FALSE]
\* the history of a scan at its start; had_entries: did found_devices hold
\* entries of an earlier scan when this one began?
ScanInit == [n |-> 0, err |-> FALSE, last |-> NoResult,
             last_kept |-> [a \in Addrs |-> NoRssi], had_entries |-> FALSE]

----------------------------------------------------------------------------
(* asyncio.Lock, as web_server.py uses it *)

\* (mutant) the handlers never see the lock held
locked_never(lock) == FALSE

\* Lock.locked()
locked(lock) == lock.state # 0

\* Lock.acquire(): takes the free lock at once, else queues the task
Lock_acquire(lock, t) ==
    IF lock.state # 0
    THEN [lock |-> [lock EXCEPT !.waiting = Append(@, t)], held |-> FALSE]
    ELSE [lock |-> [lock EXCEPT !.state = 1], held |-> TRUE]

\* Lock.release(): hands the lock to the first waiting task, if any
Lock_release(lock) ==
    IF lock.waiting # <<>>
    THEN [state |-> 1, waiting |-> Tail(lock.waiting)]
    ELSE [state |-> 0, waiting |-> <<>>]

----------------------------------------------------------------------------
(* scanner.run_scan: the Device Table *)

\* result.name() or "Unknown"
device_name(raw_name) ==
    IF raw_name = None \/ raw_name = "" THEN "Unknown" ELSE raw_name

\* str(result.device.addr_hex())
addr_hex(device) == device.addr

\* (mutant) the loop looks at the first entry only
existing_dev_first_only(devs, mac) ==
    IF Len(devs) > 0 /\ devs[1].mac = mac THEN 1 ELSE 0

\* the loop over found_devices: index of the first entry with this mac, 0 if none
existing_dev(devs, mac) ==
    IF \E i \in 1..Len(devs) : devs[i].mac = mac
    THEN CHOOSE i \in 1..Len(devs) :
            /\ devs[i].mac = mac
            /\ \A j \in 1..(i - 1) : devs[j].mac # mac
    ELSE 0

\* (mutant) an existing entry takes the name of the latest report
merge_name_latest(old, new) == new

\* (mutant) an existing entry takes every real name that comes
merge_name_any_real(old, new) == IF new # "Unknown" THEN new ELSE old

\* the name an existing entry keeps or takes
merge_name(old, new) ==
    IF old = "Unknown" /\ new # "Unknown" THEN new ELSE old

\* (mutant) the update leaves the stored signal strength alone
update_dev_stale_rssi(dev, name, result) ==
    [name |-> merge_name(dev.name, name), mac |-> dev.mac,
     rssi |-> dev.rssi, device_obj |-> result.device]

\* the update of an existing entry
update_dev(dev, name, result) ==
    [name |-> merge_name(dev.name, name), mac |-> dev.mac,
     rssi |-> result.rssi, device_obj |-> result.device]

\* (mutant) the connectable flag is not looked at
passes_rssi_only(result) == result.rssi >= RSSI_THRESHOLD

\* does the report pass the signal and connectable filters?
passes(result) == result.rssi >= RSSI_THRESHOLD /\ result.connectable

\* (mutant) the body without the FILTER_NAMED_ONLY test before the append
on_result_unfiltered(devs, result, named_only) ==
    IF ~passes(result) THEN devs
    ELSE LET name == device_name(result.name)
             mac == addr_hex(result.device)
             i == existing_dev(devs, mac)
         IN  IF i # 0
             THEN [devs EXCEPT ![i] = update_dev(@, name, result)]
             ELSE Append(devs, [name |-> name, mac |-> mac,
                                rssi |-> result.rssi,
                                device_obj |-> result.device])

\* the body of `async for result in scanner`
on_result(devs, result, named_only) ==
    IF ~passes(result) THEN devs
    ELSE LET name == device_name(result.name)
             mac == addr_hex(result.device)
             i == existing_dev(devs, mac)
         IN  IF i # 0
             THEN [devs EXCEPT ![i] = update_dev(@, name, result)]
             ELSE IF named_only /\ name = "Unknown" THEN devs
             ELSE Append(devs, [name |-> name, mac |-> mac,
                                rssi |-> result.rssi,
                                device_obj |-> result.device])

\* history of the scan: the last report, and per address the reading of the
\* last report that passed the signal and connectable filters
scan_seen(sc, result) ==
    LET mac == addr_hex(result.device) IN
    [sc EXCEPT !.n = @ + 1,
               !.last = result,
               !.last_kept[mac] = IF passes(result) THEN result.rssi ELSE @]

----------------------------------------------------------------------------
(* scanner.probe_device: pure parts *)

ProbeAddrs == Addrs \cup {"zz"}

\* outcomes of `await target_device.connect(timeout_ms=10000)`:
\* a link, OSError 107 / 22, another OSError, asyncio.TimeoutError
ConnectOutcomes == {"ok", "busy", "oserror", "timeout"}
\* and an error that is neither an OSError nor an asyncio.TimeoutError
AllConnectOutcomes == ConnectOutcomes \cup {"other"}

SvcUuids == {"0x180f", "0xabcd"}
ChrUuids == {"0x2a19"}
Properties == {FLAG_READ + FLAG_NOTIFY, FLAG_WRITE}

\* what the peer answers to the next step of `async for service in ...`:
\* a service, well-formed or not, the end of the sequence, or an error
ServiceEvents ==
    [kind : {"ok"}, uuid : SvcUuids, properties : {0}]
    \cup [kind : {"none", "nouuid", "bad", "end", "raise_type", "raise_other"},
          uuid : {None}, properties : {0}]

\* the same for `async for char in service.characteristics()`; "raise_caught"
\* is a TypeError, AttributeError or ValueError, "raise_other" any other error
CharEvents ==
    [kind : {"ok"}, uuid : ChrUuids, properties : Properties]
    \cup [kind : {"none", "nouuid", "bad", "end", "raise_caught", "raise_other"},
          uuid : {None}, properties : {0}]

\* the events of the specification of the whole system: a well-formed peer
\* with Battery Services
FewServiceEvents ==
    {e \in ServiceEvents : e.kind \in {"ok", "end"} /\ e.uuid # "0xabcd"}
FewCharEvents ==
    {e \in CharEvents : e.kind \in {"ok", "end"} /\ e.properties # FLAG_WRITE}

\* the events of the specification of probes: any peer whose characteristics
\* are Read + Notify
ProbeCharEvents == {e \in CharEvents : e.properties # FLAG_WRITE}

ProbeInit ==
    [device_name |-> "Unknown Device", target_device |-> NoDevice,
     attempt |-> 0, device_connection |-> None, services_dict |-> <<>>,
     s_uuid |-> None,
     \* history of the call: failed connection attempts, links obtained,
     \* disconnects issued, services and characteristics read so far in the
     \* running loops, the event that ended the enumeration, the outcome of
     \* log_to_file, the order of the log append and the disconnect, and
     \* whether an error is on its way to the caller
     fails |-> 0, links |-> 0, disconnects |-> 0, ns |-> 0, nc |-> 0,
     ev |-> None, logged |-> None, trace |-> <<>>, raising |-> FALSE]

\* (mutant) a device is built from whatever string comes
blind_device_unchecked(bdaddr) == [addr_type |-> ADDR_PUBLIC, addr |-> bdaddr]

\* aioble.Device(bluetooth.ADDR_PUBLIC, bluetooth.UUID(bdaddr)); NoDevice when
\* the constructor raises
blind_device(bdaddr) ==
    IF bdaddr \in Addrs THEN [addr_type |-> ADDR_PUBLIC, addr |-> bdaddr]
    ELSE NoDevice

\* is this OSError one of the two radio-busy errors (errno 107 or 22)?
radio_busy(outcome) == outcome = "busy"

\* does a failed attempt retry (continue) rather than raise?
retries(outcome, attempt) ==
    radio_busy(outcome) \/ attempt < max_retries - 1

\* (mutant) one more iteration
in_range_plus_one(attempt) == attempt < max_retries + 1

\* `for attempt in range(max_retries)`: is there another iteration?
in_range(attempt) == attempt < max_retries

\* (mutant) the finally clause never disconnects
has_connection_never(device_connection) == FALSE

\* the finally clause's `if device_connection:`
has_connection(device_connection) == device_connection # None

\* char.properties & flag
has_flag(properties, flag) == (properties \div flag) % 2 = 1

\* the props list of a characteristic
props(properties) ==
    (IF has_flag(properties, FLAG_READ) THEN <<"R">> ELSE <<>>)
    \o (IF has_flag(properties, FLAG_WRITE) THEN <<"W">> ELSE <<>>)
    \o (IF has_flag(properties, FLAG_NOTIFY) THEN <<"N">> ELSE <<>>)

\* _resolve_uuid: the label of a service, f"{s_uuid} ({UUID_NAMES[s_uuid]})"
\* for a registered uuid
resolve_uuid(uuid_obj) ==
    IF uuid_obj = None THEN "Unknown (None)"
    ELSE IF uuid_obj \in DOMAIN UUID_NAMES
         THEN uuid_obj \o " (" \o UUID_NAMES[uuid_obj] \o ")"
    ELSE uuid_obj

\* (mutant) an error of the write leaves log_to_file
log_to_file_raises(io_ok) ==
    [logged |-> IF io_ok THEN "ok" ELSE "failed", raised |-> ~io_ok]

\* log_to_file: the record is appended when the file system allows (io_ok);
\* `except Exception` keeps any error of the write inside
log_to_file(io_ok) ==
    [logged |-> IF io_ok THEN "ok" ELSE "failed", raised |-> FALSE]

\* the events that end the enumeration with an error: the service sequence
\* raises a TypeError or another error, a characteristic sequence raises an
\* error the service's handler does not catch, or there is no connection
EnumerationErrors == {"services_raise_type", "services_raise_other",
                      "chars_raise_other", "no_connection"}

\* (mutant) the service loop has no handlers
iterator_error_caught_none(ev) == FALSE

\* `except TypeError` (invalid service table) and `except Exception` (service
\* iterator error) around the service loop: is the error kept inside?
iterator_error_caught(ev) ==
    \/ ev = "services_raise_type"
    \/ ev \in EnumerationErrors

\* (mutant) the link is released before the record is appended
log_and_release_swapped(trace, logs, releases) ==
    trace \o (IF releases THEN <<"disconnect">> ELSE <<>>)
          \o (IF logs THEN <<"log">> ELSE <<>>)

\* the calls after the service loop in the order the code makes them:
\* log_to_file, then the finally clause's disconnect
log_and_release(trace, logs, releases) ==
    trace \o (IF logs THEN <<"log">> ELSE <<>>)
          \o (IF releases THEN <<"disconnect">> ELSE <<>>)

\* services_dict as a list of [uuid, name, chars] in insertion order
dict_index(d, k) ==
    IF \E i \in 1..Len(d) : d[i].uuid = k
    THEN CHOOSE i \in 1..Len(d) : d[i].uuid = k
    ELSE 0

\* services_dict[s_uuid] = {"name": s_name, "chars": []}
dict_set(d, k, name) ==
    LET v == [uuid |-> k, name |-> name, chars |-> <<>>]
        i == dict_index(d, k)
    IN  IF i # 0 THEN [d EXCEPT ![i] = v] ELSE Append(d, v)

\* services_dict[s_uuid]["chars"].append({"uuid": c_uuid, "props": props})
dict_add_char(d, k, c_uuid, properties) ==
    [d EXCEPT ![dict_index(d, k)].chars =
        Append(@, [uuid |-> c_uuid, props |-> props(properties)])]

----------------------------------------------------------------------------
(* Tasks: request handlers and the radio operations they run *)

Init ==
    /\ FILTER_NAMED_ONLY \in BOOLEAN
    /\ radio_lock = [state |-> 0, waiting |-> <<>>]
    /\ current_state = IDLE
    /\ found_devices = <<>>
    /\ pc = [t \in Tasks |-> "idle"]
    /\ req = [t \in Tasks |-> NoRequest]
    /\ resp = [t \in Tasks |-> 0]
    /\ scan = ScanInit
    /\ probe = [t \in Tasks |-> ProbeInit]
    /\ timers = 0

\* the part of the state the tasks' code writes
Cur == [led |-> current_state, devs |-> found_devices, scan |-> scan,
        probe |-> probe, pc |-> pc, req |-> req]

Set(st) ==
    /\ current_state' = st.led
    /\ found_devices' = st.devs
    /\ scan' = st.scan
    /\ probe' = st.probe
    /\ pc' = st.pc
    /\ req' = st.req

\* (mutant) run_scan without found_devices.clear()
Enter_keeps_table(st, w) ==
    IF st.req[w].kind = "scan"
    THEN [st EXCEPT !.led = SCANNING,
                    !.scan = [ScanInit EXCEPT !.had_entries = st.devs # <<>>],
                    !.pc[w] = "scanning"]
    ELSE [st EXCEPT !.led = CONNECTING, !.probe[w] = ProbeInit,
                    !.pc[w] = "cooldown"]

\* Task w, holding the lock, runs its radio operation up to the first await:
\* run_scan up to the first report, probe_device up to the cooldown sleep
Enter(st, w) ==
    IF st.req[w].kind = "scan"
    THEN [st EXCEPT !.led = SCANNING, !.devs = <<>>,
                    !.scan = [ScanInit EXCEPT !.had_entries = st.devs # <<>>],
                    !.pc[w] = "scanning"]
    ELSE [st EXCEPT !.led = CONNECTING, !.probe[w] = ProbeInit,
                    !.pc[w] = "cooldown"]

\* start_scan / probe_target up to the first await: answer 503 when the lock
\* is held, else `async with radio_lock` and the radio operation
Handle(t, q) ==
    /\ pc[t] = "idle"
    /\ IF locked(radio_lock)
       THEN /\ resp' = [resp EXCEPT ![t] = 503]
            /\ UNCHANGED <<radio_lock, current_state, found_devices, scan,
                           probe, pc, req>>
       ELSE LET a == Lock_acquire(radio_lock, t)
                st == [Cur EXCEPT !.req[t] = q]
            IN  /\ resp' = [resp EXCEPT ![t] = 0]
                /\ radio_lock' = a.lock
                /\ IF a.held THEN Set(Enter(st, t))
                   ELSE Set([st EXCEPT !.pc[t] = "lock_wait"])

\* The handler of task t answers `status`: its locals go, the `async with`
\* block releases the lock, and a task waiting for the lock gets it
Return(t, status, st) ==
    LET st1 == [st EXCEPT !.pc[t] = "idle", !.probe[t] = ProbeInit,
                          !.req[t] = NoRequest]
    IN  /\ resp' = [resp EXCEPT ![t] = status]
        /\ radio_lock' = Lock_release(radio_lock)
        /\ IF radio_lock.waiting # <<>>
           THEN Set(Enter(st1, Head(radio_lock.waiting)))
           ELSE Set(st1)

\* a step of task t within its radio operation
Step(st) ==
    /\ Set(st)
    /\ UNCHANGED <<radio_lock, resp>>

\* (mutant) start_scan without the gate
start_scan_ungated(t) ==
    /\ pc[t] = "idle"
    /\ resp' = [resp EXCEPT ![t] = 0]
    /\ Set(Enter([Cur EXCEPT !.req[t] = [kind |-> "scan", bdaddr |-> None]], t))
    /\ UNCHANGED <<FILTER_NAMED_ONLY, radio_lock, timers>>

start_scan(t) ==
    /\ Handle(t, [kind |-> "scan", bdaddr |-> None])
    /\ UNCHANGED <<FILTER_NAMED_ONLY, timers>>

probe_target(t, bdaddr) ==
    /\ Handle(t, [kind |-> "probe", bdaddr |-> bdaddr])
    /\ UNCHANGED <<FILTER_NAMED_ONLY, timers>>

\* run_scan: one report of `async for result in scanner`
run_scan_result(t, Results) ==
    /\ pc[t] = "scanning"
    /\ scan.n < MaxReports
    /\ \E result \in Results :
        Step([Cur EXCEPT
                !.devs = on_result(@, result, FILTER_NAMED_ONLY),
                !.scan = scan_seen(@, result)])
    /\ UNCHANGED <<FILTER_NAMED_ONLY, timers>>

\* (mutant) run_scan lets the error of the scan channel through to start_scan
run_scan_finish_reraises(t, Errs) ==
    /\ pc[t] = "scanning"
    /\ \E err \in Errs :
        Return(t, IF err THEN 500 ELSE 200,
               [Cur EXCEPT !.led = IDLE, !.scan.err = err])
    /\ UNCHANGED <<FILTER_NAMED_ONLY, timers>>

\* run_scan: the scan times out or its channel fails (`except Exception`); the
\* finally clause, then start_scan answers 200
run_scan_finish(t, Errs) ==
    /\ pc[t] = "scanning"
    /\ \E err \in Errs :
        Return(t, 200, [Cur EXCEPT !.led = IDLE, !.scan.err = err])
    /\ UNCHANGED <<FILTER_NAMED_ONLY, timers>>

----------------------------------------------------------------------------
(* scanner.probe_device, step by step *)

\* after the cooldown sleep: look the address up in found_devices, else build
\* a device from the raw address; ValueError("Invalid Address") when that fails
probe_lookup(t) ==
    /\ pc[t] = "cooldown"
    /\ LET bdaddr == req[t].bdaddr
           i == existing_dev(found_devices, bdaddr)
           target == IF i # 0 THEN found_devices[i].device_obj
                     ELSE blind_device(bdaddr)
           name == IF i # 0 THEN found_devices[i].name ELSE "Unknown Device"
       IN  IF target = NoDevice
           THEN Return(t, 500, [Cur EXCEPT !.led = IDLE])
           ELSE Step([Cur EXCEPT !.probe[t].device_name = name,
                                 !.probe[t].target_device = target,
                                 !.pc[t] = "connecting"])
    /\ UNCHANGED <<FILTER_NAMED_ONLY, timers>>

\* `await target_device.connect(...)` ends: a link, a retry after the backoff
\* sleep, or ERROR, a reset_led_later task and the error raised to the handler;
\* an error neither `except` clause names leaves probe_device as it is
probe_connect(t, Outcomes) ==
    /\ pc[t] = "connecting"
    /\ \E outcome \in Outcomes :
        IF outcome = "ok"
        THEN /\ Step([Cur EXCEPT !.probe[t].device_connection = "link",
                                 !.probe[t].links = @ + 1,
                                 !.pc[t] = "settle"])
             /\ UNCHANGED timers
        ELSE IF outcome = "other"
        THEN /\ Return(t, 500, [Cur EXCEPT !.probe[t].fails = @ + 1])
             /\ UNCHANGED timers
        ELSE IF retries(outcome, probe[t].attempt)
        THEN /\ Step([Cur EXCEPT !.probe[t].fails = @ + 1,
                                 !.pc[t] = "backoff"])
             /\ UNCHANGED timers
        ELSE /\ timers < MaxTimers
             /\ timers' = timers + 1
             /\ Return(t, 500, [Cur EXCEPT !.led = ERROR,
                                           !.probe[t].fails = @ + 1])
    /\ UNCHANGED FILTER_NAMED_ONLY

\* (mutant) `continue` does not use up an iteration
next_attempt_stuck(attempt) == attempt

\* the next value of the loop variable after `continue`
next_attempt(attempt) == attempt + 1

\* after the backoff sleep, `continue`: the next attempt, or the end of the
\* for loop and the settle sleep
probe_backoff(t) ==
    /\ pc[t] = "backoff"
    /\ LET a == next_attempt(probe[t].attempt) IN
       Step([Cur EXCEPT !.probe[t].attempt = a,
                        !.pc[t] = IF in_range(a) THEN "connecting" ELSE "settle"])
    /\ UNCHANGED <<FILTER_NAMED_ONLY, timers>>

\* the end of the enumeration after event ev. An error of the loop the
\* handlers keep inside, or none: log_to_file. An error that gets out of the
\* loop or of log_to_file: ERROR, a reset_led_later task, and the error is on
\* its way to the caller. Then the finally clause:
\* `await device_connection.disconnect()` if there is a connection, else IDLE
\* and the dict is returned or the error raised (probe_target answers 200 or
\* 500)
probe_finally(t, ev) ==
    \E io_ok \in BOOLEAN :
        LET inside == ev = "services_end" \/ iterator_error_caught(ev)
            log == IF inside THEN log_to_file(io_ok)
                   ELSE [logged |-> None, raised |-> TRUE]
            conn == has_connection(probe[t].device_connection)
            st == [Cur EXCEPT
                    !.led = IF log.raised THEN ERROR ELSE @,
                    !.probe[t].ev = ev,
                    !.probe[t].logged = log.logged,
                    !.probe[t].raising = log.raised,
                    !.probe[t].trace =
                        log_and_release(<<"enumerated">>, inside, conn),
                    !.probe[t].ns = 0, !.probe[t].nc = 0]
        IN  /\ log.raised => timers < MaxTimers
            /\ timers' = IF log.raised THEN timers + 1 ELSE timers
            /\ IF conn
               THEN Step([st EXCEPT !.probe[t].disconnects = @ + 1,
                                    !.pc[t] = "disconnecting"])
               ELSE Return(t, IF log.raised THEN 500 ELSE 200,
                           [st EXCEPT !.led = IDLE])

\* after the settle sleep: `device_connection.services()`. Without a
\* connection that raises AttributeError, caught as a service iterator error
probe_settled(t) ==
    /\ pc[t] = "settle"
    /\ IF probe[t].device_connection = None
       THEN probe_finally(t, "no_connection")
       ELSE Step([Cur EXCEPT !.pc[t] = "services"]) /\ UNCHANGED timers
    /\ UNCHANGED FILTER_NAMED_ONLY

\* one step of `async for service in device_connection.services()`
probe_service(t, Events) ==
    /\ pc[t] = "services"
    /\ \E e \in Events :
        /\ e.kind \in {"ok", "none", "nouuid", "bad"} => probe[t].ns < MaxServices
        /\ CASE e.kind = "ok" ->
                  /\ Step([Cur EXCEPT
                            !.probe[t].s_uuid = e.uuid,
                            !.probe[t].services_dict =
                                dict_set(@, e.uuid, resolve_uuid(e.uuid)),
                            !.probe[t].ns = @ + 1, !.probe[t].nc = 0,
                            !.pc[t] = "chars"])
                  /\ UNCHANGED timers
             [] e.kind \in {"none", "nouuid", "bad"} ->
                  /\ Step([Cur EXCEPT !.probe[t].ns = @ + 1])
                  /\ UNCHANGED timers
             [] OTHER -> probe_finally(t, "services_" \o e.kind)
    /\ UNCHANGED FILTER_NAMED_ONLY

\* one step of `async for char in service.characteristics()`
probe_char(t, Events) ==
    /\ pc[t] = "chars"
    /\ \E e \in Events :
        /\ e.kind \in {"ok", "none", "nouuid", "bad"} => probe[t].nc < MaxChars
        /\ CASE e.kind = "ok" ->
                  /\ Step([Cur EXCEPT
                            !.probe[t].services_dict =
                                dict_add_char(@, probe[t].s_uuid, e.uuid, e.properties),
                            !.probe[t].nc = @ + 1])
                  /\ UNCHANGED timers
             [] e.kind \in {"none", "nouuid", "bad"} ->
                  /\ Step([Cur EXCEPT !.probe[t].nc = @ + 1])
                  /\ UNCHANGED timers
             [] e.kind \in {"end", "raise_caught"} ->
                  /\ Step([Cur EXCEPT !.pc[t] = "services"])
                  /\ UNCHANGED timers
             [] OTHER -> probe_finally(t, "chars_" \o e.kind)
    /\ UNCHANGED FILTER_NAMED_ONLY

\* `await device_connection.disconnect()` ends, well or not: IDLE, and the
\* dict is returned (probe_target answers 200) or the pending error raised
\* (500)
probe_disconnected(t) ==
    /\ pc[t] = "disconnecting"
    /\ \E ok \in BOOLEAN :
        Return(t, IF probe[t].raising THEN 500 ELSE 200,
               [Cur EXCEPT !.led = IDLE])
    /\ UNCHANGED <<FILTER_NAMED_ONLY, timers>>

\* a reset_led_later task wakes up
reset_led_later ==
    /\ timers > 0
    /\ timers' = timers - 1
    /\ current_state' = IDLE
    /\ UNCHANGED <<FILTER_NAMED_ONLY, radio_lock, found_devices, pc, req, resp,
                   scan, probe>>

----------------------------------------------------------------------------
(* Specifications *)

\* the whole system, with a well-formed peer and a single device in reach
Next ==
    \/ \E t \in Tasks : start_scan(t)
    \/ \E t \in Tasks, bdaddr \in {"aa:01", "zz"} : probe_target(t, bdaddr)
    \/ \E t \in Tasks : run_scan_result(t, FewScanResults)
    \/ \E t \in Tasks : run_scan_finish(t, BOOLEAN)
    \/ \E t \in Tasks : probe_lookup(t)
    \/ \E t \in Tasks : probe_connect(t, AllConnectOutcomes)
    \/ \E t \in Tasks : probe_backoff(t)
    \/ \E t \in Tasks : probe_settled(t)
    \/ \E t \in Tasks : probe_service(t, FewServiceEvents)
    \/ \E t \in Tasks : probe_char(t, FewCharEvents)
    \/ \E t \in Tasks : probe_disconnected(t)
    \/ reset_led_later

\* config-example.py: FILTER_NAMED_ONLY = True
InitExample == Init /\ FILTER_NAMED_ONLY = TRUE

Spec == InitExample /\ [][Next]_vars

\* the whole system again, where the scheduler runs every task that can run:
\* a radio operation takes its next step (every await of the operations is a
\* sleep or a radio call with a time-out), a reset_led_later task wakes up.
\* Requests may stop coming.
RadioOpStep ==
    \/ \E t \in Tasks : run_scan_result(t, FewScanResults)
    \/ \E t \in Tasks : run_scan_finish(t, BOOLEAN)
    \/ \E t \in Tasks : probe_lookup(t)
    \/ \E t \in Tasks : probe_connect(t, AllConnectOutcomes)
    \/ \E t \in Tasks : probe_backoff(t)
    \/ \E t \in Tasks : probe_settled(t)
    \/ \E t \in Tasks : probe_service(t, FewServiceEvents)
    \/ \E t \in Tasks : probe_char(t, FewCharEvents)
    \/ \E t \in Tasks : probe_disconnected(t)

SpecLive ==
    /\ InitExample
    /\ [][Next]_vars
    /\ WF_vars(RadioOpStep)
    /\ WF_vars(reset_led_later)

\* scans alone, of any reports, that run to their time-out
NextScan ==
    \/ \E t \in Tasks : start_scan(t)
    \/ \E t \in Tasks : run_scan_result(t, ScanResults)
    \/ \E t \in Tasks : run_scan_finish(t, {FALSE})

SpecScan == Init /\ [][NextScan]_vars

\* probes alone, of any peer whose connection errors are OSErrors and
\* time-outs, before the first scan or after a scan that found one named device
InitProbe ==
    /\ FILTER_NAMED_ONLY = TRUE
    /\ radio_lock = [state |-> 0, waiting |-> <<>>]
    /\ current_state = IDLE
    /\ \E n \in {0, 1} : \E result \in {r \in FewScanResults : r.name = "Sensor"} :
         /\ found_devices = IF n = 0 THEN <<>>
                            ELSE on_result(<<>>, result, FILTER_NAMED_ONLY)
         /\ scan = IF n = 0 THEN ScanInit ELSE scan_seen(ScanInit, result)
    /\ pc = [t \in Tasks |-> "idle"]
    /\ req = [t \in Tasks |-> NoRequest]
    /\ resp = [t \in Tasks |-> 0]
    /\ probe = [t \in Tasks |-> ProbeInit]
    /\ timers = 0

NextProbe ==
    \/ \E t \in Tasks, bdaddr \in {"aa:01", "zz"} : probe_target(t, bdaddr)
    \/ \E t \in Tasks : probe_lookup(t)
    \/ \E t \in Tasks : probe_connect(t, ConnectOutcomes)
    \/ \E t \in Tasks : probe_backoff(t)
    \/ \E t \in Tasks : probe_settled(t)
    \/ \E t \in Tasks : probe_service(t, ServiceEvents)
    \/ \E t \in Tasks : probe_char(t, ProbeCharEvents)
    \/ \E t \in Tasks : probe_disconnected(t)
    \/ reset_led_later

SpecProbe == InitProbe /\ [][NextProbe]_vars

----------------------------------------------------------------------------
(* Properties *)

ScanPcs == {"scanning"}
ProbePcs == {"cooldown", "connecting", "backoff", "settle", "services",
             "chars", "disconnecting"}
\* task t is inside run_scan or probe_device
InRadioOp(t) == pc[t] \in ScanPcs \cup ProbePcs

\* the entries of found_devices
Entries == 1..Len(found_devices)

\* C1: at most one radio operation (a run_scan or a probe_device) is active at
\* any moment, whatever the interleaving of /scan and /probe requests.
C1_OneRadioOperation ==
    \A t1, t2 \in Tasks : InRadioOp(t1) /\ InRadioOp(t2) => t1 = t2

\* C1 witness: a probe is under way and a scan was requested meanwhile, or
\* the other way round, and only one of them runs
C1_Witness ==
    \E t1, t2 \in Tasks :
        /\ t1 # t2
        /\ pc[t1] = "connecting"
        /\ pc[t2] = "idle" /\ resp[t2] = 503

\* C2: a request that arrives while the gate is held is answered 503 at once:
\* no task ever waits for radio_lock, and while the lock is held an idle task
\* stays idle and can only be answered 503.
C2_BusyNeverWaits ==
    [][\A t \in Tasks :
          /\ pc'[t] # "lock_wait"
          /\ radio_lock'.waiting = <<>>
          /\ radio_lock.state # 0 /\ pc[t] = "idle"
                => pc'[t] = "idle" /\ resp'[t] \in {resp[t], 503}]_vars

\* C2 witness: the lock is held and an idle task has just been answered 503
C2_Witness ==
    \E t \in Tasks :
        /\ radio_lock.state = 1
        /\ pc[t] = "idle" /\ resp[t] = 503
        /\ \E u \in Tasks : pc[u] = "scanning"

\* C3: probe_device releases the link it got exactly once on every exit path:
\* never more disconnects than links, at most one link, and when the call
\* ends the disconnects issued equal the links obtained (none without a link).
C3_LinkReleasedOnce ==
    [][\A t \in Tasks :
          /\ probe'[t].links <= 1
          /\ probe'[t].disconnects <= probe'[t].links
          /\ pc[t] \in ProbePcs /\ pc'[t] = "idle"
                => probe[t].disconnects = probe[t].links]_vars

\* C3 witness: a probe that got a link has disconnected it and is about to
\* return
C3_Witness ==
    \E t \in Tasks :
        /\ pc[t] = "disconnecting"
        /\ probe[t].links = 1 /\ probe[t].disconnects = 1

\* C4 (as claimed): when every connection attempt of a probe has failed, the
\* probe ends with an error raised to its caller (answer 500), never with a
\* result.
C4_FailureIsRaised ==
    [][\A t \in Tasks :
          /\ pc[t] \in {"connecting", "settle"}
          /\ probe[t].links = 0
          /\ pc'[t] = "idle"
          => resp'[t] = 500]_vars

\* C5: a probe makes at most max_retries + 1 connection attempts, and the
\* iterations of the loop used up never exceed the attempts that failed (a
\* failure, radio-busy or not, uses up at most one).
C5_BoundedAttempts ==
    \A t \in Tasks :
        /\ probe[t].fails + probe[t].links <= max_retries + 1
        /\ probe[t].attempt <= probe[t].fails

\* C5 witness: every iteration was used up by radio-busy or other failures
C5_Witness ==
    \E t \in Tasks :
        /\ pc[t] = "settle"
        /\ probe[t].fails = max_retries /\ probe[t].attempt = max_retries

\* C6 (as claimed): up to max_retries + 1 = 3 attempts: no failure is raised
\* and the loop is not left without a link before the third attempt.
C6_ThreeAttempts ==
    [][\A t \in Tasks :
          /\ pc[t] = "connecting" /\ pc'[t] = "idle"
                => probe[t].fails + 1 >= max_retries + 1
          /\ pc[t] = "backoff" /\ pc'[t] = "settle"
                => probe[t].fails >= max_retries + 1]_vars

\* C6 (amended): up to max_retries = 2 attempts: after a first failed attempt
\* a second one is made before any failure is raised, and never a third.
C6_TwoAttempts ==
    [][\A t \in Tasks :
          /\ probe'[t].fails + probe'[t].links <= max_retries
          /\ pc[t] = "connecting" /\ pc'[t] = "idle"
                => probe[t].fails + 1 = max_retries
          /\ pc[t] = "backoff" /\ probe[t].fails = 1 /\ pc'[t] # "backoff"
                => pc'[t] = "connecting"]_vars

\* C6 witness: the second attempt is under way after a first failure
C6_Witness ==
    \E t \in Tasks : pc[t] = "connecting" /\ probe[t].fails = 1

\* C7: found_devices has at most one entry per hardware address, during and
\* after a scan.
C7_OneEntryPerAddress ==
    \A i, j \in Entries :
        found_devices[i].mac = found_devices[j].mac => i = j

\* C7 witness: a report for an address that is in the table already (the
\* entry's name is not the report's) has been merged, next to another entry
C7_Witness ==
    /\ Len(found_devices) = 2
    /\ passes(scan.last)
    /\ \E i \in Entries :
        /\ found_devices[i].mac = addr_hex(scan.last.device)
        /\ found_devices[i].name # device_name(scan.last.name)

\* no scan is running
NoScan == \A t \in Tasks : pc[t] # "scanning"

\* C8 (as claimed): after a scan, the entry of the address of the last report
\* has that report's signal strength (the last report of the scan is the most
\* recent report seen for its address).
C8_LatestReading ==
    NoScan =>
        \A i \in Entries :
            found_devices[i].mac = addr_hex(scan.last.device)
                => found_devices[i].rssi = scan.last.rssi

\* C8 (amended): after a scan, each entry's signal strength is that of the most
\* recent report for its address that was strong enough and connectable.
C8_LatestKeptReading ==
    NoScan =>
        \A i \in Entries :
            found_devices[i].rssi = scan.last_kept[found_devices[i].mac]

\* C8 witness: a scan has ended whose last report was discarded, for an
\* address whose entry holds an earlier, different reading
C8_Witness ==
    /\ NoScan
    /\ ~passes(scan.last)
    /\ \E i \in Entries :
        /\ found_devices[i].mac = addr_hex(scan.last.device)
        /\ found_devices[i].rssi # scan.last.rssi

\* C9: with FILTER_NAMED_ONLY, a report of a scan never removes an entry that
\* has a real name, nor makes its name "Unknown".
C9_NamedStays ==
    [][FILTER_NAMED_ONLY =>
        \A t \in Tasks :
            pc[t] = "scanning" /\ pc'[t] = "scanning" =>
                \A i \in Entries :
                    found_devices[i].name # "Unknown" =>
                        \E j \in 1..Len(found_devices') :
                            /\ found_devices'[j].mac = found_devices[i].mac
                            /\ found_devices'[j].name # "Unknown"]_vars

\* C9 witness: with FILTER_NAMED_ONLY, an anonymous report for an address with
\* a named entry has been processed
C9_Witness ==
    /\ FILTER_NAMED_ONLY
    /\ \E t \in Tasks : pc[t] = "scanning"
    /\ passes(scan.last) /\ scan.last.name = None
    /\ \E i \in Entries :
        /\ found_devices[i].mac = addr_hex(scan.last.device)
        /\ found_devices[i].name # "Unknown"

\* C10 (as claimed): one unreadable service or characteristic never ends the
\* enumeration: it ends only at the end of the service sequence or when the
\* service sequence itself cannot be read.
C10_SkipAndContinue ==
    \A t \in Tasks :
        pc[t] = "disconnecting" =>
            probe[t].ev \in {"services_end", "services_raise_type",
                             "services_raise_other"}

\* C11: when the service sequence cannot be read at all (its first read raises),
\* the probe does not fail: the mapping is empty, log_to_file is called, the
\* link is released and the caller is answered 200.
C11_InvalidTableDegrades ==
    [][\A t \in Tasks :
          /\ pc[t] = "services" /\ probe[t].ns = 0
             /\ probe'[t].ev \in {"services_raise_type", "services_raise_other"}
                => /\ pc'[t] = "disconnecting"
                   /\ probe'[t].services_dict = <<>>
                   /\ probe'[t].logged \in {"ok", "failed"}
                   /\ probe'[t].disconnects = 1
          /\ pc[t] = "disconnecting" /\ pc'[t] = "idle"
             /\ probe[t].ev \in {"services_raise_type", "services_raise_other"}
                => resp'[t] = 200]_vars

\* C11 witness: the service sequence raised a TypeError, nothing was read, the
\* record was appended and the link is being released
C11_Witness ==
    \E t \in Tasks :
        /\ pc[t] = "disconnecting"
        /\ probe[t].ev = "services_raise_type"
        /\ probe[t].services_dict = <<>>
        /\ probe[t].logged = "ok"

\* a step in which task t's radio operation ends in failure: an error is
\* raised to the handler (500), the scan channel failed, or the enumeration
\* ended with an error or without a connection
FailedReturn(t) ==
    /\ InRadioOp(t) /\ pc'[t] = "idle"
    /\ \/ resp'[t] = 500
       \/ pc[t] = "scanning" /\ scan'.err
       \/ pc[t] = "settle"
       \/ pc[t] = "disconnecting" /\ probe[t].ev \in EnumerationErrors

\* C12 (as claimed): when a scan or a probe fails, whatever the error, the
\* radio lock is free and the status indicator is IDLE or ERROR when control
\* returns to the requester.
C12_FailureCleansUp ==
    [][\A t \in Tasks :
          FailedReturn(t) =>
              /\ radio_lock'.state = 0
              /\ current_state' \in {IDLE, ERROR}]_vars

\* no radio operation is running
Quiet == \A t \in Tasks : pc[t] = "idle"

\* C13 (as claimed): the system never wedges: every started operation ends,
\* the radio lock is free again and again, and once requests have stopped the
\* status indicator ends up at IDLE.
C13_NeverWedges ==
    /\ \A t \in Tasks : InRadioOp(t) ~> pc[t] = "idle"
    /\ []<>(radio_lock.state = 0)
    /\ <>[]Quiet => <>[](current_state = IDLE)

\* C14: an error of the scan channel is not fatal: the scan stops, start_scan
\* answers 200, the entries found so far stay as they are and the status
\* indicator is back at IDLE.
C14_ScanErrorNonFatal ==
    [][\A t \in Tasks :
          pc[t] = "scanning" /\ pc'[t] = "idle" /\ scan'.err =>
              /\ found_devices' = found_devices
              /\ resp'[t] = 200
              /\ current_state' = IDLE]_vars

\* C14 witness: a scan that had found a device has ended with a channel error
C14_Witness ==
    /\ Quiet
    /\ scan.err /\ scan.n > 0
    /\ Len(found_devices) > 0
    /\ \E t \in Tasks : resp[t] = 200

\* C15: where a link was obtained, the enumeration has ended and the record
\* has been handed to log_to_file before the link is released, and
\* probe_device returns only once the release has been awaited.
C15_ReleaseAfterLogBeforeReturn ==
    [][\A t \in Tasks :
          /\ pc'[t] = "disconnecting" =>
                /\ probe'[t].ev # None
                /\ probe'[t].trace = <<"enumerated", "log", "disconnect">>
          /\ probe[t].links = 1 /\ pc[t] \in ProbePcs /\ pc'[t] = "idle" =>
                /\ pc[t] = "disconnecting"
                /\ probe[t].disconnects = 1]_vars

\* C15 witness: an enumeration that ended with an error has been logged and
\* its link is being released
C15_Witness ==
    \E t \in Tasks :
        /\ pc[t] = "disconnecting"
        /\ probe[t].ev = "chars_raise_other"
        /\ probe[t].trace = <<"enumerated", "log", "disconnect">>

\* C16: a failed write of the log record changes nothing: the mapping is the
\* one the enumeration built, the link is released as usual, and the caller
\* is answered 200, with or without a link.
C16_LogFailureSwallowed ==
    [][\A t \in Tasks :
          /\ probe[t].logged = None /\ probe'[t].logged = "failed" =>
                /\ probe'[t].services_dict = probe[t].services_dict
                /\ ~probe'[t].raising
                /\ pc'[t] = "disconnecting"
                /\ probe'[t].disconnects = probe'[t].links
          /\ pc[t] = "disconnecting" /\ probe[t].logged = "failed"
             /\ pc'[t] = "idle"
                => resp'[t] = 200
          /\ pc[t] = "settle" /\ pc'[t] = "idle" => resp'[t] = 200]_vars

\* C16 witness: the write of a record with services has failed and the probe
\* goes on to release its link
C16_Witness ==
    \E t \in Tasks :
        /\ pc[t] = "disconnecting"
        /\ probe[t].logged = "failed"
        /\ probe[t].services_dict # <<>>
        /\ ~probe[t].raising

\* task t has read exactly one service, 0x180f, with exactly one characteristic
BatteryPeer(t) ==
    /\ pc[t] = "services"
    /\ probe[t].ns = 1 /\ probe[t].nc = 1
    /\ Len(probe[t].services_dict) = 1
    /\ probe[t].services_dict[1].uuid = "0x180f"
    /\ Len(probe[t].services_dict[1].chars) = 1

\* C17 (as claimed): probing a peer with the one service 0x180f and one
\* Read + Notify characteristic returns the single key "0x180f" with the name
\* "Battery Service" and one characteristic with props ["R", "N"].
C17_BatteryScenario ==
    [][\A t \in Tasks :
          BatteryPeer(t) /\ probe'[t].ev = "services_end" =>
              /\ Len(probe'[t].services_dict) = 1
              /\ probe'[t].services_dict[1].uuid = "0x180f"
              /\ probe'[t].services_dict[1].name = "Battery Service"
              /\ Len(probe'[t].services_dict[1].chars) = 1
              /\ probe'[t].services_dict[1].chars[1].props = <<"R", "N">>]_vars

\* C18: the table does not outlive a scan: run_scan empties it before the
\* first report, so during and after a scan every entry's address had a report
\* of that scan that passed the filters, whatever earlier scans found.
C18_TableClearedPerScan ==
    [][/\ \A t \in Tasks :
            pc[t] = "idle" /\ pc'[t] = "scanning" => found_devices' = <<>>
       /\ \A i \in 1..Len(found_devices') :
            scan'.last_kept[found_devices'[i].mac] # NoRssi]_vars

\* C18 witness: a scan that began with entries of an earlier scan and saw
\* reports, none of them kept, has ended with an empty table
C18_Witness ==
    /\ NoScan
    /\ scan.had_entries /\ scan.n > 0
    /\ found_devices = <<>>

\* C19: a report weaker than the threshold, or not connectable, leaves the
\* table as it is: no entry is added and no entry's name, signal strength or
\* device changes.
C19_DiscardedReportNoEffect ==
    [][\A t \in Tasks :
          /\ pc[t] = "scanning" /\ pc'[t] = "scanning"
          /\ \/ scan'.last.rssi < RSSI_THRESHOLD
             \/ ~scan'.last.connectable
          => found_devices' = found_devices]_vars

\* C19 witness: a report that is not connectable has been seen for an
\* address whose entry holds another device handle
C19_Witness ==
    /\ ~NoScan
    /\ ~scan.last.connectable /\ scan.last.rssi >= RSSI_THRESHOLD
    /\ \E i \in Entries :
        /\ found_devices[i].mac = addr_hex(scan.last.device)
        /\ found_devices[i].device_obj # scan.last.device

\* C20: on a later sighting of an address in the table that passes the
\* filters, the stored name changes only from "Unknown" to the report's real
\* name; a real name is never replaced.
C20_NameOnlyUpgrades ==
    [][\A t \in Tasks :
          pc[t] = "scanning" /\ pc'[t] = "scanning" =>
              \A i \in Entries :
                  /\ i <= Len(found_devices')
                  /\ found_devices'[i].mac = found_devices[i].mac
                  /\ found_devices'[i].name # found_devices[i].name =>
                        /\ found_devices[i].name = "Unknown"
                        /\ found_devices'[i].name # "Unknown"
                        /\ found_devices'[i].name = scan'.last.name
                        /\ found_devices'[i].mac = addr_hex(scan'.last.device)]_vars

\* C20 witness: a report with another real name has been merged into an entry
\* that keeps its real name and takes the report's signal strength
C20_Witness ==
    /\ ~NoScan
    /\ scan.last.connectable /\ scan.last.rssi >= RSSI_THRESHOLD
    /\ scan.last.name = "Tag"
    /\ \E i \in Entries :
        /\ found_devices[i].mac = addr_hex(scan.last.device)
        /\ found_devices[i].name = "Sensor"
        /\ found_devices[i].rssi = scan.last.rssi

\* C21: a probe of an address that is not in the table goes by the name
\* "Unknown Device" and connects to a device built from the raw address; when
\* no device can be built it ends with the invalid-address error (500)
\* straight from the lookup, with no connection attempt made, no link, and
\* the status indicator at IDLE.
C21_BlindConnect ==
    [][\A t \in Tasks :
          /\ pc[t] = "cooldown" /\ pc'[t] # "cooldown"
          /\ existing_dev(found_devices, req[t].bdaddr) = 0
          => IF req[t].bdaddr \in Addrs
             THEN /\ pc'[t] = "connecting"
                  /\ probe'[t].device_name = "Unknown Device"
                  /\ probe'[t].target_device =
                        [addr_type |-> ADDR_PUBLIC, addr |-> req[t].bdaddr]
             ELSE /\ pc'[t] = "idle" /\ resp'[t] = 500
                  /\ probe[t].fails = 0 /\ probe[t].links = 0
                  /\ current_state' = IDLE]_vars

\* C21 witness: a blind connect is under way for an address the table does
\* not hold, after a probe of an invalid address was answered 500
C21_Witness ==
    \E t, u \in Tasks :
        /\ pc[t] = "connecting"
        /\ existing_dev(found_devices, req[t].bdaddr) = 0
        /\ probe[t].device_name = "Unknown Device"
        /\ probe[t].target_device.addr_type = ADDR_PUBLIC
        /\ u # t /\ resp[u] = 500 /\ timers = 0

\* C22 (as claimed): while a scan is in progress the status indicator shows
\* SCANNING, and while a probe is in progress CONNECTING or ERROR, whatever
\* reset_led_later tasks earlier probes left behind.
C22_IndicatorFollowsOperation ==
    \A t \in Tasks :
        /\ pc[t] \in ScanPcs => current_state = SCANNING
        /\ pc[t] \in ProbePcs => current_state \in {CONNECTING, ERROR}

\* C23: with FILTER_NAMED_ONLY, no entry of the table is named "Unknown", at
\* any point of a scan and for any reports.
C23_NamedOnly ==
    FILTER_NAMED_ONLY =>
        \A i \in Entries : found_devices[i].name # "Unknown"

\* C23 witness: with FILTER_NAMED_ONLY, an anonymous report that passed the
\* signal and connectable filters was dropped, next to a named entry
C23_Witness ==
    /\ FILTER_NAMED_ONLY
    /\ ~NoScan
    /\ scan.last.connectable /\ scan.last.rssi >= RSSI_THRESHOLD
    /\ scan.last.name = None
    /\ Len(found_devices) > 0
    /\ \A i \in Entries : found_devices[i].mac # addr_hex(scan.last.device)

====
